---- MODULE Spec2Model ----
(***************************************************************************)
(* Model of audio/play.go: Play, PlayAsync and the tracking goroutine      *)
(* that PlayAsync starts.  One playback request is modelled: the caller    *)
(* (Play or a direct user of PlayAsync), the goroutine, the subscription   *)
(* channel s.C, the two time.After timers, and the environment that        *)
(* delivers events, expires timers and cancels the caller's context.       *)
(* Each statement of the goroutine that another goroutine can observe      *)
(* (a channel close, the write of pb.err, s.Cancel) is a step of its own.  *)
(***************************************************************************)
EXTENDS Integers, Sequences, FiniteSets, TLC

\* ---------------------------------------------------------------- bounds
\* Events the bus delivers on s.C over the life of the subscription.
MaxEvents == 3
\* Calls of pb.Cancel by a holder of the handle PlayAsync returned.
MaxCancels == 2

\* ------------------------------------------------------------ event shape
\* data.ID of the playback being tracked, and the ID of some other playback.
id == "pb1"
otherId == "pb2"
Ids == {id, otherId}

\* v.GetType(): the two subscribed tags and any other tag.
Types == {"PlaybackStarted", "PlaybackFinished", "ChannelDtmfReceived"}

\* A nil event received from s.C.
NilEvent == [type |-> "nil", pbid |-> "none"]

Events == {NilEvent} \cup [type : Types, pbid : Ids]

\* The errors pb.err and the callers can see.
NoErr == "nil"
StartTimeoutErr == "Timeout waiting for start of playback"
StopTimeoutErr == "Timeout waiting for stop of playback"
SetupErr == "setup error"
CtxErr == "context canceled"

\* timeoutErr.Timeout(): the values of type timeoutErr.
IsTimeout(e) == e \in {StartTimeoutErr, StopTimeoutErr}

VARIABLES
    entry,        \* which entry point the caller used: "Play" or "PlayAsync"
    cpc,          \* position of the caller inside Play / PlayAsync
    result,       \* error returned by the entry point ("none" until it returns)
    ctxDone,      \* ctx.Done() is closed
    sub,          \* the subscription s: "none", "open", "cancelled"
    sCancels,     \* number of calls of s.Cancel
    sC,           \* the events queued on s.C
    delivered,    \* number of events the bus has delivered
    tpc,          \* position of the tracking goroutine
    startCh,      \* pb.startCh: "nil", "open", "closed"
    stopCh,       \* pb.stopCh
    quitCh,       \* pb.quitCh
    startCloses,  \* number of close(pb.startCh) executed
    stopCloses,   \* number of close(pb.stopCh) executed
    err,          \* pb.err
    errWrites,    \* number of writes of pb.err
    startTimer,   \* startTimer: "unarmed", "armed", "fired"
    stopTimer,    \* stopTimer
    cancelCalls,  \* number of calls of pb.Cancel
    hist          \* history of the run, read only by the properties

vars == <<entry, cpc, result, ctxDone, sub, sCancels, sC, delivered, tpc,
          startCh, stopCh, quitCh, startCloses, stopCloses, err, errWrites,
          startTimer, stopTimer, cancelCalls, hist>>

callerVars == <<entry, cpc, result>>
chanVars == <<startCh, stopCh, startCloses, stopCloses>>
timerVars == <<startTimer, stopTimer>>

\* The phase of the tracking goroutine, by its position.
StartPhasePcs == {"armStart", "startSelect"}
PlayingPcs == {"closeStartPlaying", "armStop", "stopSelect"}
ExitPcs == {"startTimeoutErr", "closeStart", "closeStop", "stopTimeoutErr",
            "deferCloseStop", "deferCancel", "done"}

\* The two positions where the goroutine waits in a select.
Selects == {"startSelect", "stopSelect"}

Phase ==
    IF tpc = "idle" THEN "NotStarted"
    ELSE IF tpc \in StartPhasePcs THEN "AwaitingStart"
    ELSE IF tpc \in PlayingPcs THEN "Playing"
    ELSE "Terminated"

InitHist ==
    [ exitPath        |-> "none",   \* the branch that ended tracking
      iter            |-> 0,        \* selects the goroutine has woken from
      startClosedIter |-> -1,       \* value of iter when startCh was closed
      stopClosedIter  |-> -1,       \* value of iter when stopCh was closed
      cancelPhase     |-> "none",   \* Phase when quitCh was closed
      matching        |-> FALSE,    \* a Started/Finished event with id was delivered
      startInTime     |-> FALSE,    \* matching start received, start timer not fired
      finishInTime    |-> FALSE,    \* matching finish received, stop timer not fired
      sawStart        |-> FALSE,    \* the start loop received a matching start
      sawFinish       |-> FALSE,    \* a loop received a matching finish
      ignoredInStart  |-> FALSE,    \* the start loop received an event and continued
      ignoredInPlaying |-> FALSE,   \* the stop loop received an event and continued
      quitCloses      |-> 0 ]       \* number of close(quitCh) executed

Init ==
    /\ entry \in {"Play", "PlayAsync"}
    /\ cpc = "subscribe"
    /\ result = "none"
    /\ ctxDone = FALSE
    /\ sub = "none"
    /\ sCancels = 0
    /\ sC = <<>>
    /\ delivered = 0
    /\ tpc = "idle"
    /\ startCh = "nil"
    /\ stopCh = "nil"
    /\ quitCh = "nil"
    /\ startCloses = 0
    /\ stopCloses = 0
    /\ err = NoErr
    /\ errWrites = 0
    /\ startTimer = "unarmed"
    /\ stopTimer = "unarmed"
    /\ cancelCalls = 0
    /\ hist = InitHist

\* ------------------------------------------------------------ pure helpers
\* The test both loops apply to a Started/Finished event: e.Playback.ID != id.
Unrelated(v) == v.pbid # id

\* A Started or Finished event that carries the tracked identifier.
Matching(v) == v.type \in {"PlaybackStarted", "PlaybackFinished"} /\ v.pbid = id

\* The start loop without the identifier test on PlaybackStarted.
StartLoopBranch_NoIdCheck(v) ==
    IF v = NilEvent THEN "continue"
    ELSE IF v.type = "PlaybackStarted" THEN "break"
    ELSE IF v.type = "PlaybackFinished"
         THEN IF Unrelated(v) THEN "continue" ELSE "return"
    ELSE "continue"

\* What the start loop does with an event received from s.C:
\* "continue" (keep waiting), "break" (playback started), "return" (finished).
StartLoopBranch(v) ==
    IF v = NilEvent THEN "continue"
    ELSE IF v.type = "PlaybackStarted"
         THEN IF Unrelated(v) THEN "continue" ELSE "break"
    ELSE IF v.type = "PlaybackFinished"
         THEN IF Unrelated(v) THEN "continue" ELSE "return"
    ELSE "continue"

\* The stop loop returning on any event that carries the tracked identifier.
StopLoopBranch_AnyMatching(v) ==
    IF v = NilEvent THEN "continue"
    ELSE IF Matching(v) THEN "return"
    ELSE "continue"

\* What the stop loop does with an event received from s.C.
StopLoopBranch(v) ==
    IF v = NilEvent THEN "continue"
    ELSE IF v.type = "PlaybackFinished"
         THEN IF Unrelated(v) THEN "continue" ELSE "return"
    ELSE "continue"

\* pb.Cancel() closing quitCh on every call.
Cancel_NotIdempotent ==
    /\ quitCh' = "closed"
    /\ cancelCalls' = cancelCalls + 1
    /\ hist' = [hist EXCEPT !.cancelPhase = IF quitCh = "open" THEN Phase ELSE @,
                            !.quitCloses = @ + 1]

\* pb.Cancel(): closes quitCh unless it is closed already; never blocks.
Cancel ==
    /\ quitCh' = "closed"
    /\ cancelCalls' = cancelCalls + 1
    /\ hist' = IF quitCh = "open"
               THEN [hist EXCEPT !.cancelPhase = Phase, !.quitCloses = @ + 1]
               ELSE hist

\* ------------------------------------------------- the caller: PlayAsync
\* s := bus.Subscribe("PlaybackStarted", "PlaybackFinished")
Subscribe ==
    /\ cpc = "subscribe"
    /\ sub' = "open"
    /\ cpc' = "play"
    /\ UNCHANGED <<entry, result, ctxDone, sCancels, sC, delivered, tpc, chanVars,
                   quitCh, err, errWrites, timerVars, cancelCalls, hist>>

\* h, err := p.Play(mediaURI) succeeds.
PlayCmdOk ==
    /\ cpc = "play"
    /\ cpc' = "build"
    /\ UNCHANGED <<entry, result, ctxDone, sub, sCancels, sC, delivered, tpc,
                   chanVars, quitCh, err, errWrites, timerVars, cancelCalls, hist>>

\* The p.Play error path returning a nil error.
PlayCmdFail_SwallowsErr ==
    /\ cpc = "play"
    /\ sub' = "cancelled"
    /\ sCancels' = sCancels + 1
    /\ result' = NoErr
    /\ cpc' = "ret"
    /\ UNCHANGED <<entry, ctxDone, sC, delivered, tpc, chanVars, quitCh, err,
                   errWrites, timerVars, cancelCalls, hist>>

\* p.Play fails: s.Cancel(); return nil, err (Play returns the same error).
PlayCmdFail ==
    /\ cpc = "play"
    /\ sub' = "cancelled"
    /\ sCancels' = sCancels + 1
    /\ result' = SetupErr
    /\ cpc' = "ret"
    /\ UNCHANGED <<entry, ctxDone, sC, delivered, tpc, chanVars, quitCh, err,
                   errWrites, timerVars, cancelCalls, hist>>

\* quitCh, pb.stopCh and pb.startCh are made.
Build ==
    /\ cpc = "build"
    /\ startCh' = "open"
    /\ stopCh' = "open"
    /\ quitCh' = "open"
    /\ cpc' = "data"
    /\ UNCHANGED <<entry, result, ctxDone, sub, sCancels, sC, delivered, tpc,
                   startCloses, stopCloses, err, errWrites, timerVars,
                   cancelCalls, hist>>

\* data, err := h.Data() succeeds.
DataOk ==
    /\ cpc = "data"
    /\ cpc' = "spawn"
    /\ UNCHANGED <<entry, result, ctxDone, sub, sCancels, sC, delivered, tpc,
                   chanVars, quitCh, err, errWrites, timerVars, cancelCalls, hist>>

\* The h.Data error path returning without s.Cancel().
DataFail_NoCancel ==
    /\ cpc = "data"
    /\ result' = SetupErr
    /\ cpc' = "ret"
    /\ UNCHANGED <<entry, ctxDone, sub, sCancels, sC, delivered, tpc, chanVars,
                   quitCh, err, errWrites, timerVars, cancelCalls, hist>>

\* h.Data fails: s.Cancel(); return nil, err.
DataFail ==
    /\ cpc = "data"
    /\ sub' = "cancelled"
    /\ sCancels' = sCancels + 1
    /\ result' = SetupErr
    /\ cpc' = "ret"
    /\ UNCHANGED <<entry, ctxDone, sC, delivered, tpc, chanVars, quitCh, err,
                   errWrites, timerVars, cancelCalls, hist>>

\* go func() {...}(); return &pb, err.  Play goes on to its select; a caller
\* of PlayAsync now holds the handle.
Spawn ==
    /\ cpc = "spawn"
    /\ tpc' = "armStart"
    /\ cpc' = IF entry = "Play" THEN "select" ELSE "holding"
    /\ result' = IF entry = "Play" THEN "none" ELSE NoErr
    /\ UNCHANGED <<entry, ctxDone, sub, sCancels, sC, delivered, chanVars, quitCh,
                   err, errWrites, timerVars, cancelCalls, hist>>

\* ------------------------------------------------------ the caller: Play
\* The StopCh case returning without the deferred pb.Cancel().
PlayStopped_NoCancel ==
    /\ cpc = "select"
    /\ stopCh = "closed"
    /\ result' = err
    /\ cpc' = "ret"
    /\ UNCHANGED <<entry, ctxDone, sub, sCancels, sC, delivered, tpc, chanVars,
                   quitCh, err, errWrites, timerVars, cancelCalls, hist>>

\* case <-pb.StopCh(): return pb.Err(), then the deferred pb.Cancel().
PlayStopped ==
    /\ cpc = "select"
    /\ stopCh = "closed"
    /\ result' = err
    /\ cpc' = "ret"
    /\ Cancel
    /\ UNCHANGED <<entry, ctxDone, sub, sCancels, sC, delivered, tpc, chanVars,
                   err, errWrites, timerVars>>

\* The ctx.Done case returning without the deferred pb.Cancel().
PlayCtxDone_NoCancel ==
    /\ cpc = "select"
    /\ ctxDone
    /\ result' = CtxErr
    /\ cpc' = "ret"
    /\ UNCHANGED <<entry, ctxDone, sub, sCancels, sC, delivered, tpc, chanVars,
                   quitCh, err, errWrites, timerVars, cancelCalls, hist>>

\* case <-ctx.Done(): return ctx.Err(), then the deferred pb.Cancel().
PlayCtxDone ==
    /\ cpc = "select"
    /\ ctxDone
    /\ result' = CtxErr
    /\ cpc' = "ret"
    /\ Cancel
    /\ UNCHANGED <<entry, ctxDone, sub, sCancels, sC, delivered, tpc, chanVars,
                   err, errWrites, timerVars>>

\* A holder of the handle returned by PlayAsync calls pb.Cancel().
UserCancel ==
    /\ cpc = "holding"
    /\ cancelCalls < MaxCancels
    /\ Cancel
    /\ UNCHANGED <<entry, cpc, result, ctxDone, sub, sCancels, sC, delivered, tpc,
                   chanVars, err, errWrites, timerVars>>

\* -------------------------------------------------------- the environment
\* The caller's context is cancelled.
CtxCancel ==
    /\ entry = "Play"
    /\ ~ctxDone
    /\ ctxDone' = TRUE
    /\ UNCHANGED <<entry, cpc, result, sub, sCancels, sC, delivered, tpc, chanVars,
                   quitCh, err, errWrites, timerVars, cancelCalls, hist>>

\* The bus delivers event e on s.C.
Deliver(e) ==
    /\ sub = "open"
    /\ delivered < MaxEvents
    /\ sC' = Append(sC, e)
    /\ delivered' = delivered + 1
    /\ hist' = [hist EXCEPT !.matching = @ \/ Matching(e)]
    /\ UNCHANGED <<entry, cpc, result, ctxDone, sub, sCancels, tpc, chanVars,
                   quitCh, err, errWrites, timerVars, cancelCalls>>

\* The events of an endless stream of unrelated events.
StreamEvents == {e \in Events : ~Matching(e)}

\* Once the counted events were all delivered and received, the bus goes on
\* delivering unrelated events, one at a time, without end.
DeliverStream(e) ==
    /\ sub = "open"
    /\ delivered = MaxEvents
    /\ sC = <<>>
    /\ sC' = <<e>>
    /\ UNCHANGED <<entry, cpc, result, ctxDone, sub, sCancels, delivered, tpc,
                   chanVars, quitCh, err, errWrites, timerVars, cancelCalls, hist>>

\* PlaybackStartTimeout elapses: the channel of startTimer becomes readable.
StartTimerExpire ==
    /\ startTimer = "armed"
    /\ startTimer' = "fired"
    /\ UNCHANGED <<entry, cpc, result, ctxDone, sub, sCancels, sC, delivered, tpc,
                   chanVars, quitCh, err, errWrites, stopTimer, cancelCalls, hist>>

\* MaxPlaybackTime elapses: the channel of stopTimer becomes readable.
StopTimerExpire ==
    /\ stopTimer = "armed"
    /\ stopTimer' = "fired"
    /\ UNCHANGED <<entry, cpc, result, ctxDone, sub, sCancels, sC, delivered, tpc,
                   chanVars, quitCh, err, errWrites, startTimer, cancelCalls, hist>>

\* ------------------------------------------- the tracking goroutine
\* A select is woken: one more iteration of the loop it is in.
\* The count stops at MaxEvents + 2, which is reached only after every counted
\* event and an event of the endless stream were received.
Woken(h) == [h EXCEPT !.iter = IF @ <= MaxEvents + 1 THEN @ + 1 ELSE @]

\* startTimer := time.After(PlaybackStartTimeout)
ArmStart ==
    /\ tpc = "armStart"
    /\ startTimer' = "armed"
    /\ tpc' = "startSelect"
    /\ UNCHANGED <<callerVars, ctxDone, sub, sCancels, sC, delivered, chanVars,
                   quitCh, err, errWrites, stopTimer, cancelCalls, hist>>

\* Start loop, case <-quitCh.
StartSelectQuit ==
    /\ tpc = "startSelect"
    /\ quitCh = "closed"
    /\ tpc' = "closeStart"
    /\ hist' = [Woken(hist) EXCEPT !.exitPath = "cancelStart"]
    /\ UNCHANGED <<callerVars, ctxDone, sub, sCancels, sC, delivered, chanVars,
                   quitCh, err, errWrites, timerVars, cancelCalls>>

\* A finish seen before any start falls into the code of the timeout branch.
StartBranchPc_FinishAsTimeout(b) ==
    CASE b = "continue" -> "startSelect"
      [] b = "break"    -> "closeStartPlaying"
      [] b = "return"   -> "startTimeoutErr"

\* Where the start loop goes after an event: continue PlaybackStartLoop,
\* break PlaybackStartLoop, or the closes before return.
StartBranchPc(b) ==
    CASE b = "continue" -> "startSelect"
      [] b = "break"    -> "closeStartPlaying"
      [] b = "return"   -> "closeStart"

\* Start loop, case v := <-s.C, with the nil test and the switch on v.GetType().
StartSelectEvent ==
    /\ tpc = "startSelect"
    /\ sC # <<>>
    /\ LET v == Head(sC)
           b == StartLoopBranch(v)
           h == Woken(hist)
       IN  /\ sC' = Tail(sC)
           /\ tpc' = StartBranchPc(b)
           /\ hist' = CASE b = "continue" -> [h EXCEPT !.ignoredInStart = TRUE]
                        [] b = "break" ->
                             [h EXCEPT !.startInTime = (startTimer # "fired"),
                                       !.sawStart = TRUE]
                        [] b = "return" -> [h EXCEPT !.exitPath = "finishEarly",
                                                     !.sawFinish = TRUE]
    /\ UNCHANGED <<callerVars, ctxDone, sub, sCancels, delivered, chanVars,
                   quitCh, err, errWrites, timerVars, cancelCalls>>

\* Start loop, case <-startTimer.
StartSelectTimer ==
    /\ tpc = "startSelect"
    /\ startTimer = "fired"
    /\ tpc' = "startTimeoutErr"
    /\ hist' = [Woken(hist) EXCEPT !.exitPath = "startTimeout"]
    /\ UNCHANGED <<callerVars, ctxDone, sub, sCancels, sC, delivered, chanVars,
                   quitCh, err, errWrites, timerVars, cancelCalls>>

\* The timeout branch with pb.err written after the two closes.
StartTimeoutSetErr_Late ==
    /\ tpc = "startTimeoutErr"
    /\ \/ /\ stopCh = "open"
          /\ startCh' = "closed"
          /\ stopCh' = "closed"
          /\ startCloses' = startCloses + 1
          /\ stopCloses' = stopCloses + 1
          /\ hist' = [hist EXCEPT !.startClosedIter = hist.iter,
                                  !.stopClosedIter = hist.iter]
          /\ UNCHANGED <<tpc, err, errWrites>>
       \/ /\ stopCh = "closed"
          /\ err' = StartTimeoutErr
          /\ errWrites' = errWrites + 1
          /\ tpc' = "deferCancel"
          /\ UNCHANGED <<chanVars, hist>>
    /\ UNCHANGED <<callerVars, ctxDone, sub, sCancels, sC, delivered, quitCh,
                   timerVars, cancelCalls>>

\* pb.err = timeoutErr{"Timeout waiting for start of playback"}
StartTimeoutSetErr ==
    /\ tpc = "startTimeoutErr"
    /\ err' = StartTimeoutErr
    /\ errWrites' = errWrites + 1
    /\ tpc' = "closeStart"
    /\ UNCHANGED <<callerVars, ctxDone, sub, sCancels, sC, delivered, chanVars,
                   quitCh, timerVars, cancelCalls, hist>>

\* The returning branches without their close(pb.startCh).
CloseStart_Skip ==
    /\ tpc = "closeStart"
    /\ tpc' = "closeStop"
    /\ UNCHANGED <<callerVars, ctxDone, sub, sCancels, sC, delivered, chanVars,
                   quitCh, err, errWrites, timerVars, cancelCalls, hist>>

\* close(pb.startCh) of the three returning branches of the start loop.
CloseStart ==
    /\ tpc = "closeStart"
    /\ startCh' = "closed"
    /\ startCloses' = startCloses + 1
    /\ tpc' = "closeStop"
    /\ hist' = [hist EXCEPT !.startClosedIter = hist.iter]
    /\ UNCHANGED <<callerVars, ctxDone, sub, sCancels, sC, delivered, stopCh,
                   stopCloses, quitCh, err, errWrites, timerVars, cancelCalls>>

\* The returning branches with an s.Cancel() of their own before the deferred one.
CloseStop_AlsoCancels ==
    /\ tpc = "closeStop"
    /\ stopCh' = "closed"
    /\ stopCloses' = stopCloses + 1
    /\ sub' = "cancelled"
    /\ sCancels' = sCancels + 1
    /\ tpc' = "deferCancel"
    /\ hist' = [hist EXCEPT !.stopClosedIter = hist.iter]
    /\ UNCHANGED <<callerVars, ctxDone, sC, delivered, startCh, startCloses,
                   quitCh, err, errWrites, timerVars, cancelCalls>>

\* close(pb.stopCh); return of the three returning branches of the start loop.
CloseStop ==
    /\ tpc = "closeStop"
    /\ stopCh' = "closed"
    /\ stopCloses' = stopCloses + 1
    /\ tpc' = "deferCancel"
    /\ hist' = [hist EXCEPT !.stopClosedIter = hist.iter]
    /\ UNCHANGED <<callerVars, ctxDone, sub, sCancels, sC, delivered, startCh,
                   startCloses, quitCh, err, errWrites, timerVars, cancelCalls>>

\* The start loop left without close(pb.startCh).
CloseStartPlaying_Skip ==
    /\ tpc = "closeStartPlaying"
    /\ tpc' = "armStop"
    /\ UNCHANGED <<callerVars, ctxDone, sub, sCancels, sC, delivered, chanVars,
                   quitCh, err, errWrites, timerVars, cancelCalls, hist>>

\* After the start loop: close(pb.startCh).
CloseStartPlaying ==
    /\ tpc = "closeStartPlaying"
    /\ startCh' = "closed"
    /\ startCloses' = startCloses + 1
    /\ tpc' = "armStop"
    /\ hist' = [hist EXCEPT !.startClosedIter = hist.iter]
    /\ UNCHANGED <<callerVars, ctxDone, sub, sCancels, sC, delivered, stopCh,
                   stopCloses, quitCh, err, errWrites, timerVars, cancelCalls>>

\* defer close(pb.stopCh); stopTimer := time.After(MaxPlaybackTime)
ArmStop ==
    /\ tpc = "armStop"
    /\ stopTimer' = "armed"
    /\ tpc' = "stopSelect"
    /\ UNCHANGED <<callerVars, ctxDone, sub, sCancels, sC, delivered, chanVars,
                   quitCh, err, errWrites, startTimer, cancelCalls, hist>>

\* The quit case of the stop loop closing pb.stopCh itself, before the deferred close.
StopSelectQuit_ClosesItself ==
    /\ tpc = "stopSelect"
    /\ quitCh = "closed"
    /\ stopCh' = "closed"
    /\ stopCloses' = stopCloses + 1
    /\ tpc' = "deferCloseStop"
    /\ hist' = [Woken(hist) EXCEPT !.exitPath = "cancelPlaying"]
    /\ UNCHANGED <<callerVars, ctxDone, sub, sCancels, sC, delivered, startCh,
                   startCloses, quitCh, err, errWrites, timerVars, cancelCalls>>

\* Stop loop, case <-quitCh: return.
StopSelectQuit ==
    /\ tpc = "stopSelect"
    /\ quitCh = "closed"
    /\ tpc' = "deferCloseStop"
    /\ hist' = [Woken(hist) EXCEPT !.exitPath = "cancelPlaying"]
    /\ UNCHANGED <<callerVars, ctxDone, sub, sCancels, sC, delivered, chanVars,
                   quitCh, err, errWrites, timerVars, cancelCalls>>

\* Stop loop, case v := <-s.C, with the nil test and the switch on v.GetType().
StopSelectEvent ==
    /\ tpc = "stopSelect"
    /\ sC # <<>>
    /\ LET v == Head(sC)
           b == StopLoopBranch(v)
           h == Woken(hist)
       IN  /\ sC' = Tail(sC)
           /\ tpc' = IF b = "return" THEN "deferCloseStop" ELSE "stopSelect"
           /\ hist' = IF b = "return"
                      THEN [h EXCEPT !.exitPath = "finish",
                                     !.finishInTime = (stopTimer # "fired"),
                                     !.sawFinish = TRUE]
                      ELSE [h EXCEPT !.ignoredInPlaying = TRUE]
    /\ UNCHANGED <<callerVars, ctxDone, sub, sCancels, delivered, chanVars,
                   quitCh, err, errWrites, timerVars, cancelCalls>>

\* The stop loop waiting on startTimer instead of a timer of its own.
StopSelectTimer_UsesStartTimer ==
    /\ tpc = "stopSelect"
    /\ startTimer = "fired"
    /\ tpc' = "stopTimeoutErr"
    /\ hist' = [Woken(hist) EXCEPT !.exitPath = "stopTimeout"]
    /\ UNCHANGED <<callerVars, ctxDone, sub, sCancels, sC, delivered, chanVars,
                   quitCh, err, errWrites, timerVars, cancelCalls>>

\* The timer case of the stop loop logging the timeout and waiting on.
StopSelectTimer_Continues ==
    /\ tpc = "stopSelect"
    /\ stopTimer = "fired"
    /\ stopTimer' = "spent"
    /\ hist' = Woken(hist)
    /\ UNCHANGED <<callerVars, ctxDone, sub, sCancels, sC, delivered, tpc, chanVars,
                   quitCh, err, errWrites, startTimer, cancelCalls>>

\* Stop loop, case <-stopTimer.
StopSelectTimer ==
    /\ tpc = "stopSelect"
    /\ stopTimer = "fired"
    /\ tpc' = "stopTimeoutErr"
    /\ hist' = [Woken(hist) EXCEPT !.exitPath = "stopTimeout"]
    /\ UNCHANGED <<callerVars, ctxDone, sub, sCancels, sC, delivered, chanVars,
                   quitCh, err, errWrites, timerVars, cancelCalls>>

\* pb.err = timeoutErr{"Timeout waiting for stop of playback"}; return.
StopTimeoutSetErr ==
    /\ tpc = "stopTimeoutErr"
    /\ err' = StopTimeoutErr
    /\ errWrites' = errWrites + 1
    /\ tpc' = "deferCloseStop"
    /\ UNCHANGED <<callerVars, ctxDone, sub, sCancels, sC, delivered, chanVars,
                   quitCh, timerVars, cancelCalls, hist>>

\* The two defers registered in the other order: s.Cancel() runs before
\* close(pb.stopCh).
DeferCloseStop_AfterCancel ==
    /\ tpc = "deferCloseStop"
    /\ \/ /\ sub = "open"
          /\ sub' = "cancelled"
          /\ sCancels' = sCancels + 1
          /\ UNCHANGED <<tpc, stopCh, stopCloses, hist>>
       \/ /\ sub = "cancelled"
          /\ stopCh' = "closed"
          /\ stopCloses' = stopCloses + 1
          /\ tpc' = "done"
          /\ hist' = [hist EXCEPT !.stopClosedIter = hist.iter]
          /\ UNCHANGED <<sub, sCancels>>
    /\ UNCHANGED <<callerVars, ctxDone, sC, delivered, startCh, startCloses,
                   quitCh, err, errWrites, timerVars, cancelCalls>>

\* The deferred close(pb.stopCh), run when the stop loop returns.
DeferCloseStop ==
    /\ tpc = "deferCloseStop"
    /\ stopCh' = "closed"
    /\ stopCloses' = stopCloses + 1
    /\ tpc' = "deferCancel"
    /\ hist' = [hist EXCEPT !.stopClosedIter = hist.iter]
    /\ UNCHANGED <<callerVars, ctxDone, sub, sCancels, sC, delivered, startCh,
                   startCloses, quitCh, err, errWrites, timerVars, cancelCalls>>

\* The deferred s.Cancel(), run last on every return of the goroutine.
DeferCancel ==
    /\ tpc = "deferCancel"
    /\ sub' = "cancelled"
    /\ sCancels' = sCancels + 1
    /\ tpc' = "done"
    /\ UNCHANGED <<callerVars, ctxDone, sC, delivered, chanVars, quitCh, err,
                   errWrites, timerVars, cancelCalls, hist>>

Next ==
    \/ Subscribe
    \/ PlayCmdOk
    \/ PlayCmdFail
    \/ Build
    \/ DataOk
    \/ DataFail
    \/ Spawn
    \/ PlayStopped
    \/ PlayCtxDone
    \/ UserCancel
    \/ CtxCancel
    \/ \E e \in Events : Deliver(e)
    \/ \E e \in StreamEvents : DeliverStream(e)
    \/ StartTimerExpire
    \/ StopTimerExpire
    \/ ArmStart
    \/ StartSelectQuit
    \/ StartSelectEvent
    \/ StartSelectTimer
    \/ StartTimeoutSetErr
    \/ CloseStart
    \/ CloseStop
    \/ CloseStartPlaying
    \/ ArmStop
    \/ StopSelectQuit
    \/ StopSelectEvent
    \/ StopSelectTimer
    \/ StopTimeoutSetErr
    \/ DeferCloseStop
    \/ DeferCancel

Spec == Init /\ [][Next]_vars

\* The steps of Play/PlayAsync up to the start of the goroutine.
SetupStep ==
    Subscribe \/ PlayCmdOk \/ PlayCmdFail \/ Build \/ DataOk \/ DataFail \/ Spawn

\* The steps of the tracking goroutine other than the two timer cases.
TaskStep ==
    \/ ArmStart \/ StartSelectQuit \/ StartSelectEvent \/ StartTimeoutSetErr
    \/ CloseStart \/ CloseStop \/ CloseStartPlaying \/ ArmStop
    \/ StopSelectQuit \/ StopSelectEvent \/ StopTimeoutSetErr
    \/ DeferCloseStop \/ DeferCancel

\* The Go scheduler runs every runnable goroutine, armed timers fire, and a
\* select whose timer case stays ready takes it sooner or later.
FairSpec ==
    /\ Spec
    /\ WF_vars(SetupStep)
    /\ WF_vars(TaskStep)
    /\ WF_vars(StartTimerExpire)
    /\ WF_vars(StopTimerExpire)
    /\ WF_vars(StartSelectTimer)
    /\ WF_vars(StopSelectTimer)

\* ---------------------------------------------------------------- properties
\* C1: the stop signal is never closed while the start signal is still open;
\* startCh is closed in an earlier iteration than stopCh or in the same one.
StartBeforeStop ==
    /\ stopCh = "closed" => startCh = "closed"
    /\ hist.stopClosedIter >= 0 =>
          /\ hist.startClosedIter >= 0
          /\ hist.startClosedIter <= hist.stopClosedIter

\* C1 witness: both signals closed by one returning branch of the start loop.
StartBeforeStopWitness ==
    /\ stopCh = "closed"
    /\ startCh = "closed"
    /\ hist.exitPath = "cancelStart"
    /\ hist.startClosedIter = hist.stopClosedIter

\* C2: on every exit path each of startCh and stopCh is closed exactly once,
\* never twice, and only a step of the tracking goroutine closes them.
ClosedExactlyOnce ==
    /\ [](/\ startCloses <= 1
          /\ stopCloses <= 1
          /\ tpc \in {"deferCancel", "done"} => (startCloses = 1 /\ stopCloses = 1)
          /\ tpc \in {"idle"} \cup StartPhasePcs => (startCloses = 0 /\ stopCloses = 0))
    /\ [][(startCloses' # startCloses \/ stopCloses' # stopCloses) =>
             (tpc' # tpc /\ UNCHANGED <<cpc, cancelCalls>>)]_vars

\* C2 witness: tracking ended by the stop timeout with both signals closed once.
ClosedExactlyOnceWitness ==
    /\ tpc = "done"
    /\ hist.exitPath = "stopTimeout"
    /\ startCloses = 1
    /\ stopCloses = 1

\* C3: the subscription is released exactly once by the end of every
\* terminal exit of the tracking goroutine, and not before the exit.
SubscriptionReleasedOnce ==
    /\ sCancels <= 1
    /\ tpc = "done" => (sCancels = 1 /\ sub = "cancelled")
    /\ tpc \notin {"idle", "done"} => (sCancels = 0 /\ sub = "open")

\* C3 witness: tracking ended by the start timeout, subscription released once.
SubscriptionReleasedOnceWitness ==
    /\ tpc = "done"
    /\ hist.exitPath = "startTimeout"
    /\ sCancels = 1

\* C4: pb.err is written at most once, by a timeout branch of the tracking
\* goroutine, while stopCh is still open; it never changes once stopCh is closed.
ErrWrittenOnceBeforeStop ==
    [][(errWrites' # errWrites \/ err' # err) =>
          /\ errWrites = 0
          /\ stopCh = "open"
          /\ stopCh' = "open"
          /\ tpc \in {"startTimeoutErr", "stopTimeoutErr"}
          /\ tpc' # tpc]_vars

\* C4 witness: Play has read the timeout error after seeing stopCh closed.
ErrWrittenOnceBeforeStopWitness ==
    /\ stopCh = "closed"
    /\ errWrites = 1
    /\ cpc = "ret"
    /\ result = StopTimeoutErr

CancelledWhileTracking == hist.cancelPhase \in {"AwaitingStart", "Playing"}

\* C6: while only events with another identifier or an unhandled type (or nil
\* events) were delivered and tracking was not cancelled, the goroutine is in
\* AwaitingStart or has left it by the start timeout, with the start-timeout
\* error; and when that stays so, a started goroutine does end that way.
OnlyUnrelatedEvents ==
    /\ []((~hist.matching /\ ~CancelledWhileTracking) =>
            /\ Phase \in {"NotStarted", "AwaitingStart"}
                  \/ hist.exitPath = "startTimeout"
            /\ stopCh = "closed" => err = StartTimeoutErr)
    /\ [](~hist.matching /\ ~CancelledWhileTracking) =>
            <>(\/ tpc = "done" /\ err = StartTimeoutErr /\ stopCh = "closed"
               \/ tpc = "idle" /\ cpc = "ret")

\* C6 witness: two or more unrelated events consumed, then the start timeout.
OnlyUnrelatedEventsWitness ==
    /\ ~hist.matching
    /\ ~CancelledWhileTracking
    /\ delivered >= 2
    /\ sC = <<>>
    /\ tpc = "done"
    /\ err = StartTimeoutErr

\* C7: a matching PlaybackFinished received in the start loop ends tracking
\* with pb.err nil, and startCh and stopCh are closed in that same iteration.
FinishBeforeStart ==
    hist.exitPath = "finishEarly" =>
        /\ tpc \in {"closeStart", "closeStop", "deferCancel", "done"}
        /\ err = NoErr
        /\ hist.startClosedIter \in {-1, hist.iter}
        /\ hist.stopClosedIter \in {-1, hist.iter}
        /\ tpc \in {"deferCancel", "done"} =>
              (startCh = "closed" /\ stopCh = "closed" /\
               hist.startClosedIter = hist.stopClosedIter)

\* C7 witness: tracking ended by a finish received before any start.
FinishBeforeStartWitness ==
    /\ hist.exitPath = "finishEarly"
    /\ tpc = "done"
    /\ stopCh = "closed"

\* C8: cancellation requested while the goroutine is in AwaitingStart ends
\* tracking with both signals closed, pb.err nil and the subscription released.
CancelInAwaitingStart ==
    (hist.cancelPhase = "AwaitingStart" /\ tpc = "done") =>
        /\ startCh = "closed"
        /\ stopCh = "closed"
        /\ sub = "cancelled"
        /\ err = NoErr

\* C9: cancellation requested while the goroutine is in Playing closes the
\* stop signal with pb.err nil.
CancelInPlaying ==
    (hist.cancelPhase = "Playing" /\ stopCh = "closed") => err = NoErr

\* C10: a select of the tracking goroutine that is woken with quitCh closed
\* takes the quit case: it neither receives an event nor takes a timer case.
CancelPreempts ==
    [][(quitCh = "closed" /\ tpc \in Selects /\ hist'.iter # hist.iter) =>
          /\ hist'.exitPath \in {"cancelStart", "cancelPlaying"}
          /\ sC' = sC]_vars


PlayReturnsTerminalError ==
    [][(cpc = "select" /\ cpc' = "ret" /\ stopCh = "closed") => result' = err]_vars


\* C13: after a failure of p.Play or h.Data the entry point has returned the
\* error, the subscription was released exactly once, no goroutine was started,
\* no signal was closed and no event was received from s.C.
SetupFailure ==
    (cpc = "ret" /\ result = SetupErr) =>
        /\ sub = "cancelled"
        /\ sCancels = 1
        /\ tpc = "idle"
        /\ startCloses = 0
        /\ stopCloses = 0
        /\ startCh # "closed"
        /\ stopCh # "closed"
        /\ quitCh # "closed"
        /\ cancelCalls = 0
        /\ hist.iter = 0
        /\ Len(sC) = delivered

\* C13 witness: h.Data failed after the channels were made and events queued.
SetupFailureWitness ==
    /\ cpc = "ret"
    /\ result = SetupErr
    /\ stopCh = "open"
    /\ delivered >= 1

\* C14: the start-timeout error is recorded only when the start loop received
\* neither a matching start nor a matching finish; stopTimer is armed only once
\* a matching start was received; the stop-timeout error is recorded only after
\* a matching start and with stopTimer fired; startTimer firing after Playing
\* was entered leaves pb.err alone.
PhaseScopedDeadlines ==
    /\ err = StartTimeoutErr =>
          /\ ~hist.sawStart
          /\ ~hist.sawFinish
          /\ startTimer = "fired"
          /\ stopTimer = "unarmed"
          /\ hist.exitPath = "startTimeout"
    /\ stopTimer # "unarmed" => (hist.sawStart /\ Phase \notin {"NotStarted", "AwaitingStart"})
    /\ err = StopTimeoutErr =>
          /\ hist.sawStart
          /\ stopTimer = "fired"
          /\ hist.exitPath = "stopTimeout"
    /\ hist.exitPath = "stopTimeout" => stopTimer = "fired"
    /\ hist.exitPath = "startTimeout" => startTimer = "fired"
    /\ hist.sawStart => err # StartTimeoutErr

\* C14 witness: startTimer fired during Playing and tracking ended by the
\* stop timeout.
PhaseScopedDeadlinesWitness ==
    /\ hist.sawStart
    /\ hist.startInTime
    /\ startTimer = "fired"
    /\ err = StopTimeoutErr
    /\ tpc = "done"


\* C15 as claimed: Play returns nil, a timeout error or ctx.Err(), nothing else.
PlayThreeOutcomes ==
    (entry = "Play" /\ cpc = "ret") => (result \in {NoErr, CtxErr} \/ IsTimeout(result))

\* C15: Play returns nil or a timeout error (pb.err, read with stopCh closed),
\* ctx.Err() (ctx done), or the error of PlayAsync when setup failed.
PlayOutcomes ==
    (entry = "Play" /\ cpc = "ret") =>
        /\ result \in {NoErr, CtxErr, SetupErr} \/ IsTimeout(result)
        /\ result = NoErr => (stopCh = "closed" /\ err = NoErr)
        /\ IsTimeout(result) => (stopCh = "closed" /\ err = result)
        /\ result = CtxErr => ctxDone
        /\ result = SetupErr <=> tpc = "idle"

\* C15 witness: Play returned the setup error of PlayAsync.
PlayOutcomesWitness ==
    /\ entry = "Play"
    /\ cpc = "ret"
    /\ result = SetupErr

\* C16 as claimed: Play has called pb.Cancel whenever it has returned.
PlayAlwaysCancels ==
    (entry = "Play" /\ cpc = "ret") => cancelCalls >= 1

\* C16: Play calls pb.Cancel exactly once when it returns from its select
\* (stop, timeout or ctx), and not at all when PlayAsync failed; the call
\* leaves the signals, pb.err, the goroutine and the subscription as they are.
PlayCancelsWithHandle ==
    /\ []((entry = "Play" /\ cpc = "ret") =>
            IF result = SetupErr
            THEN cancelCalls = 0 /\ quitCh # "closed"
            ELSE cancelCalls = 1 /\ quitCh = "closed")
    /\ [][(cpc = "select" /\ cpc' = "ret") =>
             /\ cancelCalls' = cancelCalls + 1
             /\ quitCh' = "closed"
             /\ UNCHANGED <<chanVars, err, errWrites, tpc, sub, sCancels>>]_vars

\* C16 witness: Play cancelled a handle whose goroutine had already ended.
PlayCancelsWithHandleWitness ==
    /\ entry = "Play"
    /\ cpc = "ret"
    /\ cancelCalls = 1
    /\ hist.cancelPhase = "Terminated"
    /\ tpc = "done"
    /\ startCloses = 1
    /\ stopCloses = 1

\* C17: a call of pb.Cancel changes nothing but quitCh; a second call, or a
\* call after tracking ended, closes no channel again; once the goroutine is
\* done the signals and pb.err stay as they are.
CancelIdempotent ==
    /\ [](hist.quitCloses <= 1 /\ startCloses <= 1 /\ stopCloses <= 1)
    /\ [][cancelCalls' # cancelCalls =>
             /\ quitCh' = "closed"
             /\ UNCHANGED <<chanVars, err, errWrites, tpc, sub, sCancels, sC, timerVars>>
             /\ quitCh = "closed" => hist' = hist]_vars
    /\ [][tpc = "done" => UNCHANGED <<chanVars, err, errWrites, tpc, sub, sCancels>>]_vars

\* C17 witness: pb.Cancel called twice after a natural finish.
CancelIdempotentWitness ==
    /\ cancelCalls = 2
    /\ hist.cancelPhase = "Terminated"
    /\ hist.exitPath = "finish"
    /\ tpc = "done"
    /\ err = NoErr


\* An event the start loop is meant to skip: nil, another identifier, or a
\* type other than PlaybackStarted and PlaybackFinished.
IgnoredInStart(v) ==
    \/ v = NilEvent
    \/ v.pbid # id
    \/ v.type \notin {"PlaybackStarted", "PlaybackFinished"}

\* An event the stop loop is meant to skip: anything but a PlaybackFinished
\* with the tracked identifier.
IgnoredInPlaying(v) == ~(v.type = "PlaybackFinished" /\ v.pbid = id)

\* C18: receiving an ignored event changes neither the position of the
\* goroutine, the signals, pb.err, the subscription, quitCh nor the timers,
\* and ends no tracking: in the start loop a nil, mismatched or unhandled
\* event, in the stop loop every event but a matching PlaybackFinished.
IgnoredEventsFrame ==
    [][(/\ tpc \in Selects
        /\ sC # <<>>
        /\ sC' = Tail(sC)
        /\ IF tpc = "startSelect" THEN IgnoredInStart(Head(sC))
                                  ELSE IgnoredInPlaying(Head(sC))) =>
          /\ UNCHANGED <<tpc, chanVars, err, errWrites, sub, sCancels, quitCh,
                         timerVars, callerVars, cancelCalls>>
          /\ hist'.exitPath = hist.exitPath
          /\ hist'.exitPath = "none"]_vars

\* C18 witness: an event was skipped in the stop loop, between the matching
\* start and the matching finish, and tracking ended without error.
IgnoredEventsFrameWitness ==
    /\ hist.sawStart
    /\ hist.ignoredInPlaying
    /\ hist.exitPath = "finish"
    /\ tpc = "done"
    /\ err = NoErr

\* C20: while stopCh is open the goroutine has not released the subscription:
\* on every exit s.Cancel() runs after close(pb.stopCh).
ReleaseAfterStop ==
    (tpc # "idle" /\ stopCh # "closed") => (sub = "open" /\ sCancels = 0)

\* C20 witness: Play has returned pb.Err() after seeing stopCh closed while
\* the subscription is still held.
ReleaseAfterStopWitness ==
    /\ entry = "Play"
    /\ cpc = "ret"
    /\ result = err
    /\ stopCh = "closed"
    /\ tpc = "deferCancel"
    /\ sub = "open"


\* C19: every run in which setup does not fail reaches the end of the tracking
\* goroutine, with stopCh closed and the subscription released, whatever
\* events arrive (none, the counted ones, or unrelated events without end)
\* and whether or not pb.Cancel is called.
TrackingTerminates ==
    <>(\/ tpc = "done" /\ stopCh = "closed" /\ sub = "cancelled"
       \/ tpc = "idle" /\ cpc = "ret" /\ result = SetupErr)

\* C19 witness: tracking ended by the start timeout after the counted events
\* and at least one event of the endless stream were received, never cancelled.
TrackingTerminatesWitness ==
    /\ tpc = "done"
    /\ stopCh = "closed"
    /\ quitCh = "open"
    /\ delivered = MaxEvents
    /\ hist.iter = MaxEvents + 2
    /\ hist.exitPath = "startTimeout"

====
